---- MODULE Spec2Model ----
(***************************************************************************)
(* Model of the Cyber Shield AI chat component (src/src/App.tsx):          *)
(* getGeminiResponse, the two-call classify-then-answer pipeline, and the  *)
(* App component's state and event handlers that call it.                  *)
(*                                                                         *)
(* Text is modelled as a sequence of one-character strings, so that        *)
(* toLowerCase, includes and trim are computed character by character.     *)
(* The three fixed sentences of the source are one-token sequences.        *)
(* Message timestamps (Date.now()) are left out: no handler reads them.    *)
(***************************************************************************)
EXTENDS Integers, Sequences, FiniteSets, TLC

\* Bound on the number of accepted submissions of one run (searchHistory is
\* never cleared by the code, so it counts them).
MaxHistory == 2

\* The same bound for runs against the deterministic stub, whose state space
\* is smaller
MaxStubHistory == 3

VARIABLES
    input,          \* useState('')            App.tsx:44
    messages,       \* useState<Message[]>([]) App.tsx:45
    isLoading,      \* useState(false)         App.tsx:46
    attachment,     \* useState<attachment>()  App.tsx:47
    isSidebarOpen,  \* useState(false)         App.tsx:48
    searchHistory,  \* useState([])            App.tsx:50
    pipelines,      \* running getGeminiResponse invocations: id -> [question, pc]
    calls,          \* model.generateContent calls issued and not yet consumed
    stub            \* stand-in for the remote service: [on, table], table: prompt -> outcome

vars == <<input, messages, isLoading, attachment, isSidebarOpen,
          searchHistory, pipelines, calls, stub>>

----------------------------------------------------------------------------
\* Text helpers

Whitespace == {" "}

\* String.prototype.toLowerCase on one character
LowerChar(c) ==
    CASE c = "T" -> "t"
      [] c = "R" -> "r"
      [] c = "U" -> "u"
      [] c = "E" -> "e"
      [] c = "F" -> "f"
      [] c = "S" -> "s"
      [] OTHER -> c

ToLowerCase(s) == [i \in 1..Len(s) |-> LowerChar(s[i])]

\* String.prototype.includes
Includes(s, sub) ==
    \E i \in 0..(Len(s) - Len(sub)) :
        \A j \in 1..Len(sub) : s[i + j] = sub[j]

RECURSIVE TrimStart(_)
TrimStart(s) ==
    IF s # <<>> /\ Head(s) \in Whitespace THEN TrimStart(Tail(s)) ELSE s

RECURSIVE TrimEnd(_)
TrimEnd(s) ==
    IF s # <<>> /\ s[Len(s)] \in Whitespace
    THEN TrimEnd(SubSeq(s, 1, Len(s) - 1))
    ELSE s

\* String.prototype.trim
Trim(s) == TrimEnd(TrimStart(s))

----------------------------------------------------------------------------
\* Fixed strings of the source

OffTopicRefusal ==
    <<"I apologize, but I can only assist with cybersecurity-related questions. Please feel free to ask any questions about cybersecurity, and I'll be happy to help.">>

TechnicalDifficulty ==
    <<"I apologize, but I'm currently experiencing technical difficulties. Please try again later.">>

SubmitError ==
    <<"I apologize, but I encountered an error processing your request. Please try again.">>

CategoryCheckPrefix ==
    "Determine if this question is related to cybersecurity. Only respond with \"true\" if it's cybersecurity-related, or \"false\" if it's not: \""

MainPromptPrefix ==
    "You are a cybersecurity expert AI assistant. Please provide a detailed, professional response to this cybersecurity question: "

TrueToken == <<"t", "r", "u", "e">>

----------------------------------------------------------------------------
\* Inputs

\* Text the user can have in the input box
Questions ==
    { <<>>,
      <<" ">>,
      <<" ", "q">> }

NoAttachment == "none"

\* handleFileChange: 'image' when file.type starts with image/, else 'file'
Files == {"image", "file"}

\* Raw response texts the remote service can return to the classification prompt
ClassifierTexts ==
    { <<>>,
      <<"f", "a", "l", "s", "e">>,
      <<"t", "r", "u", "e">>,
      <<"T", "r", "u", "e", ".">>,
      <<"n", "o", "t", " ", "T", "R", "U", "E">>,
      <<"t", "r", "u">> }

\* Raw response texts the remote service can return to the answer prompt
GeneratorTexts ==
    { <<>>,
      <<"S", "t", "e", "p", " ">> }

Pending == [status |-> "pending", text |-> <<>>]
Failed == [status |-> "error", text |-> <<>>]
Text(t) == [status |-> "text", text |-> t]

\* What one remote call can come back with: a text, or a raised error
Outcomes(kind) ==
    {Failed} \cup {Text(t) : t \in IF kind = "classify" THEN ClassifierTexts ELSE GeneratorTexts}

----------------------------------------------------------------------------
\* getGeminiResponse

\* a classification prompt that carries the previous question along
categoryCheckPromptWithContext(question) ==
    <<CategoryCheckPrefix>> \o question \o <<"\"">>
        \o (IF searchHistory = <<>> THEN <<>> ELSE searchHistory[1])

categoryCheckPrompt(question) == <<CategoryCheckPrefix>> \o question \o <<"\"">>

\* an answer prompt built from the trimmed question
promptTrimmed(question) == <<MainPromptPrefix>> \o Trim(question)

prompt(question) == <<MainPromptPrefix>> \o question

\* a classifier parse that accepts anything that is not "false"
isCyberSecurityRelatedUnlessFalse(text) ==
    ~Includes(ToLowerCase(text), <<"f", "a", "l", "s", "e">>)

isCyberSecurityRelated(text) == Includes(ToLowerCase(text), TrueToken)

Call(id, kind, p) == [id |-> id, kind |-> kind, prompt |-> p, reply |-> Pending]

\* both calls issued at once
CallsAtStartParallel(id, question) ==
    { Call(id, "classify", categoryCheckPrompt(question)),
      Call(id, "generate", prompt(question)) }

\* Calls issued by getGeminiResponse before its first await
CallsAtStart(id, question) == {Call(id, "classify", categoryCheckPrompt(question))}

\* Calls issued once the classifier has answered in-domain
CallsAfterClassify(id, question) == {Call(id, "generate", prompt(question))}

Return(value) == [kind |-> "return", value |-> value]
Throw == [kind |-> "throw", value |-> <<>>]

\* a catch block that rethrows
OnCatchRethrow == Throw

\* the catch block of getGeminiResponse
OnCatch == Return(TechnicalDifficulty)

\* the response text returned trimmed
OnGeneratedTrimmed(text) == Return(Trim(text))

\* return response.text()
OnGenerated(text) == Return(text)

\* if (!isCyberSecurityRelated) return "..."
OnOffTopic == Return(OffTopicRefusal)

----------------------------------------------------------------------------
\* Messages

UserMessage(content, att) == [type |-> "user", content |-> content, attachment |-> att]
BotMessage(content) == [type |-> "bot", content |-> content, attachment |-> NoAttachment]

\* handleSubmit after `await getGeminiResponse(input)`: try / catch
ResponseMessage(result) ==
    IF result.kind = "return" THEN BotMessage(result.value) ELSE BotMessage(SubmitError)

\* The live remote service: any call may come back with any outcome
NoStub == [on |-> FALSE, table |-> <<>>]

\* A deterministic stub of the remote service: the outcome it gives a prompt
\* the first time is the outcome it gives that prompt every time
DeterministicStub == [on |-> TRUE, table |-> <<>>]

Without(f, id) == [k \in (DOMAIN f) \ {id} |-> f[k]]

----------------------------------------------------------------------------
Init ==
    /\ input = <<>>
    /\ messages = <<>>
    /\ isLoading = FALSE
    /\ attachment = NoAttachment
    /\ isSidebarOpen = FALSE
    /\ searchHistory = <<>>
    /\ pipelines = <<>>
    /\ calls = {}
    /\ stub = NoStub

\* onChange of the text input (disabled while loading)
SetInput(q) ==
    /\ ~isLoading
    /\ input' = q
    /\ UNCHANGED <<messages, isLoading, attachment, isSidebarOpen,
                   searchHistory, pipelines, calls, stub>>

\* the file picker is opened by a button that is disabled while loading
handleFileChange(f) ==
    /\ ~isLoading
    /\ attachment' = f
    /\ UNCHANGED <<input, messages, isLoading, isSidebarOpen,
                   searchHistory, pipelines, calls, stub>>

\* the remove button is rendered only when an attachment is selected
handleRemoveAttachment ==
    /\ attachment # NoAttachment
    /\ attachment' = NoAttachment
    /\ UNCHANGED <<input, messages, isLoading, isSidebarOpen,
                   searchHistory, pipelines, calls, stub>>

ToggleSidebar ==
    /\ isSidebarOpen' = ~isSidebarOpen
    /\ UNCHANGED <<input, messages, isLoading, attachment,
                   searchHistory, pipelines, calls, stub>>

\* the sidebar's buttons are on screen only while the sidebar is open
handleHistoryClick(i) ==
    /\ isSidebarOpen
    /\ i \in 1..Len(searchHistory)
    /\ input' = searchHistory[i]
    /\ isSidebarOpen' = FALSE
    /\ UNCHANGED <<messages, isLoading, attachment,
                   searchHistory, pipelines, calls, stub>>

handleNewChat ==
    /\ isSidebarOpen
    /\ messages' = <<>>
    /\ input' = <<>>
    /\ attachment' = NoAttachment
    /\ isSidebarOpen' = FALSE
    /\ UNCHANGED <<isLoading, searchHistory, pipelines, calls, stub>>

SubmissionBound == IF stub.on THEN MaxStubHistory ELSE MaxHistory

\* the guard without its loading test
SubmitRejectedIgnoringLoading == Trim(input) = <<>> /\ attachment = NoAttachment

\* if ((!input.trim() && !attachment) || isLoading) return;
SubmitRejected == (Trim(input) = <<>> /\ attachment = NoAttachment) \/ isLoading

handleSubmit ==
    IF SubmitRejected
    THEN UNCHANGED vars
    ELSE LET id == Len(searchHistory) + 1 IN
         /\ Len(searchHistory) < SubmissionBound
         /\ messages' = Append(messages, UserMessage(input, attachment))
         /\ searchHistory' = <<input>> \o searchHistory
         /\ input' = <<>>
         /\ attachment' = NoAttachment
         /\ isLoading' = TRUE
         /\ pipelines' = (id :> [question |-> input, pc |-> "classify"]) @@ pipelines
         /\ calls' = calls \cup CallsAtStart(id, input)
         /\ UNCHANGED <<isSidebarOpen, stub>>

\* The remote service answers one outstanding call
ServiceRespond(c, o) ==
    /\ c \in calls
    /\ c.reply = Pending
    /\ c.prompt \in DOMAIN stub.table => o = stub.table[c.prompt]
    /\ calls' = (calls \ {c}) \cup {[c EXCEPT !.reply = o]}
    /\ stub' = IF stub.on /\ c.prompt \notin DOMAIN stub.table
               THEN [stub EXCEPT !.table = (c.prompt :> o) @@ @]
               ELSE stub
    /\ UNCHANGED <<input, messages, isLoading, attachment, isSidebarOpen,
                   searchHistory, pipelines>>

\* handleSubmit's resumption without its finally block
FinishWithoutFinally(id, result, remaining) ==
    /\ messages' = Append(messages, ResponseMessage(result))
    /\ pipelines' = Without(pipelines, id)
    /\ calls' = remaining
    /\ UNCHANGED <<input, isLoading, attachment, isSidebarOpen, searchHistory, stub>>

\* getGeminiResponse returns (or throws) and handleSubmit resumes:
\* the bot message is appended and the finally block clears isLoading
Finish(id, result, remaining) ==
    /\ messages' = Append(messages, ResponseMessage(result))
    /\ isLoading' = FALSE
    /\ pipelines' = Without(pipelines, id)
    /\ calls' = remaining
    /\ UNCHANGED <<input, attachment, isSidebarOpen, searchHistory, stub>>

\* resumption after `await model.generateContent(categoryCheckPrompt)`
ClassifyContinue(c) ==
    /\ c \in calls
    /\ c.kind = "classify"
    /\ c.reply # Pending
    /\ c.id \in DOMAIN pipelines
    /\ pipelines[c.id].pc = "classify"
    /\ LET question == pipelines[c.id].question IN
       IF c.reply.status = "error"
       THEN Finish(c.id, OnCatch, calls \ {c})
       ELSE IF ~isCyberSecurityRelated(c.reply.text)
       THEN Finish(c.id, OnOffTopic, calls \ {c})
       ELSE /\ pipelines' = [pipelines EXCEPT ![c.id].pc = "generate"]
            /\ calls' = (calls \ {c}) \cup CallsAfterClassify(c.id, question)
            /\ UNCHANGED <<input, messages, isLoading, attachment,
                           isSidebarOpen, searchHistory, stub>>

\* resumption after `await model.generateContent(prompt)`
GenerateContinue(c) ==
    /\ c \in calls
    /\ c.kind = "generate"
    /\ c.reply # Pending
    /\ c.id \in DOMAIN pipelines
    /\ pipelines[c.id].pc = "generate"
    /\ IF c.reply.status = "error"
       THEN Finish(c.id, OnCatch, calls \ {c})
       ELSE Finish(c.id, OnGenerated(c.reply.text), calls \ {c})

Respond == \E c \in calls : \E o \in Outcomes(c.kind) : ServiceRespond(c, o)
Classified == \E c \in calls : ClassifyContinue(c)
Generated == \E c \in calls : GenerateContinue(c)

Next ==
    \/ \E q \in Questions : SetInput(q)
    \/ \E f \in Files : handleFileChange(f)
    \/ handleRemoveAttachment
    \/ ToggleSidebar
    \/ \E i \in DOMAIN searchHistory : handleHistoryClick(i)
    \/ handleNewChat
    \/ handleSubmit
    \/ Respond
    \/ Classified
    \/ Generated

Spec == Init /\ [][Next]_vars

\* A sample of the outcomes: an error, an off-topic and an in-domain
\* classification, a generated text
SampleOutcomes(kind) ==
    IF kind = "classify"
    THEN {Failed, Text(<<"f", "a", "l", "s", "e">>), Text(<<"T", "r", "u", "e", ".">>)}
    ELSE {Failed, Text(<<"S", "t", "e", "p", " ">>)}

SampleFiles == {"file"}

RespondSample == \E c \in calls : \E o \in SampleOutcomes(c.kind) : ServiceRespond(c, o)

\* Next with the remote outcomes and the attached files drawn from the samples
NextSample ==
    \/ \E q \in Questions : SetInput(q)
    \/ \E f \in SampleFiles : handleFileChange(f)
    \/ handleRemoveAttachment
    \/ ToggleSidebar
    \/ \E i \in DOMAIN searchHistory : handleHistoryClick(i)
    \/ handleNewChat
    \/ handleSubmit
    \/ RespondSample
    \/ Classified
    \/ Generated

\* The same program run against a deterministic stub of the remote service
InitStub ==
    /\ input = <<>>
    /\ messages = <<>>
    /\ isLoading = FALSE
    /\ attachment = NoAttachment
    /\ isSidebarOpen = FALSE
    /\ searchHistory = <<>>
    /\ pipelines = <<>>
    /\ calls = {}
    /\ stub = DeterministicStub

SpecStub == InitStub /\ [][NextSample]_vars

\* Every issued remote call eventually returns or fails, and the event loop
\* runs every continuation that is ready
Fairness == WF_vars(RespondSample) /\ WF_vars(Classified) /\ WF_vars(Generated)

LiveSpec == Init /\ [][NextSample]_vars /\ Fairness

----------------------------------------------------------------------------
\* Vocabulary of the properties

\* t contains "true" in any mix of upper and lower case
ContainsTrueIgnoringCase(t) ==
    \E i \in 1..(Len(t) - 3) :
        /\ t[i] \in {"t", "T"}
        /\ t[i + 1] \in {"r", "R"}
        /\ t[i + 2] \in {"u", "U"}
        /\ t[i + 3] \in {"e", "E"}

\* this step hands the reply of call c to getGeminiResponse
Consumed(c) == c \in calls /\ c.reply # Pending /\ c \notin calls'

GenerateCallsOf(id, S) == {g \in S : g.kind = "generate" /\ g.id = id}

LastMessage == messages[Len(messages)]

\* this step appends exactly the bot message with content a
BotAppended(a) == messages' = Append(messages, BotMessage(a))

\* C1: when the classifier's reply text does not contain "true" (in any
\* case), the answer is the fixed off-topic refusal and no generation call is
\* issued for that question: none is outstanding and the invocation is over.
FailClosedClassification ==
    [][\A c \in calls :
          (/\ Consumed(c)
           /\ c.kind = "classify"
           /\ c.reply.status = "text"
           /\ ~ContainsTrueIgnoringCase(c.reply.text))
          => /\ BotAppended(OffTopicRefusal)
             /\ GenerateCallsOf(c.id, calls \cup calls') = {}
             /\ c.id \notin DOMAIN pipelines']_vars

RefusalDelivered ==
    /\ Len(messages) >= 2
    /\ LastMessage = BotMessage(OffTopicRefusal)
    /\ messages[Len(messages) - 1].type = "user"
    /\ calls = {}

\* C2: when the classifier's reply text contains "true" (in any case), the
\* generation call is issued, and its prompt carries the question that was
\* passed to getGeminiResponse, character for character.
InDomainInvokesGenerator ==
    [][\A c \in calls :
          (/\ Consumed(c)
           /\ c.kind = "classify"
           /\ c.reply.status = "text"
           /\ ContainsTrueIgnoringCase(c.reply.text))
          => /\ c.id \in DOMAIN pipelines
             /\ pipelines[c.id].question = searchHistory[Len(searchHistory) - c.id + 1]
             /\ \E g \in GenerateCallsOf(c.id, calls') :
                   /\ g.reply = Pending
                   /\ g.prompt = <<MainPromptPrefix>> \o pipelines[c.id].question]_vars

GeneratorAskedVerbatim ==
    \E g \in calls :
        /\ g.kind = "generate"
        /\ g.reply = Pending
        /\ g.prompt = <<MainPromptPrefix, " ", "q">>

\* C3: when a remote call fails, whichever of the two it is, the answer is
\* the fixed technical-difficulty string (the error does not reach
\* handleSubmit's catch), and after a failed classification no generation
\* call exists for the question.
RemoteErrorYieldsTechnicalDifficulty ==
    [][\A c \in calls :
          (Consumed(c) /\ c.reply.status = "error")
          => /\ BotAppended(TechnicalDifficulty)
             /\ c.id \notin DOMAIN pipelines'
             /\ c.kind = "classify" => GenerateCallsOf(c.id, calls \cup calls') = {}]_vars

TechnicalDifficultyDelivered ==
    /\ messages # <<>>
    /\ LastMessage = BotMessage(TechnicalDifficulty)
    /\ ~isLoading

\* C4: every answer appended is, whole, one of three values: the text the
\* generation call returned, the off-topic refusal, or the
\* technical-difficulty string.
AnswerIsWholesale ==
    [][(/\ Len(messages') = Len(messages) + 1
        /\ messages'[Len(messages')].type = "bot")
       => LET a == messages'[Len(messages')].content IN
          \/ a = OffTopicRefusal
          \/ a = TechnicalDifficulty
          \/ \E g \in calls :
                /\ Consumed(g)
                /\ g.kind = "generate"
                /\ g.reply.status = "text"
                /\ a = g.reply.text]_vars

GeneratedTextDelivered ==
    /\ messages # <<>>
    /\ LastMessage = BotMessage(<<"S", "t", "e", "p", " ">>)

\* C5: against a deterministic stub, two submissions of the same question
\* get the same answer, whatever was submitted before or between them.
SameQuestionSameAnswer ==
    \A i, j \in 1..(Len(messages) - 1) :
        (/\ messages[i].type = "user"
         /\ messages[j].type = "user"
         /\ messages[i].content = messages[j].content
         /\ messages[i + 1].type = "bot"
         /\ messages[j + 1].type = "bot")
        => messages[i + 1].content = messages[j + 1].content

AskedTwiceWithAnotherBetween ==
    /\ Len(messages) = 6
    /\ \A i \in {1, 3, 5} : messages[i].type = "user" /\ messages[i + 1].type = "bot"
    /\ messages[1].content = messages[5].content
    /\ messages[3].content # messages[1].content
    /\ messages[4].content # messages[2].content
    /\ messages[6].content = messages[2].content

\* C6: a generation call is outstanding only for an invocation whose
\* classification call has resolved and been consumed; the two calls of one
\* question are never outstanding together.
StrictSequencing ==
    \A g \in calls :
        g.kind = "generate"
        => /\ g.id \in DOMAIN pipelines
           /\ pipelines[g.id].pc = "generate"
           /\ ~\E c \in calls : c.kind = "classify" /\ c.id = g.id

GenerationOutstanding ==
    \E g \in calls :
        /\ g.kind = "generate"
        /\ g.reply = Pending
        /\ pipelines[g.id].pc = "generate"

\* C7: at most one question is in flight, and while one is in flight a submit
\* event changes nothing: no step starts a pipeline, adds a user message or
\* touches the search history.
SubmissionsSerialized ==
    /\ [](Cardinality(DOMAIN pipelines) <= 1)
    /\ [][pipelines # <<>>
          => /\ handleSubmit => UNCHANGED vars
             /\ DOMAIN pipelines' \subseteq DOMAIN pipelines
             /\ searchHistory' = searchHistory
             /\ \/ messages' \in {messages, <<>>}
                \/ \E m \in {messages'[Len(messages')]} :
                      m.type = "bot" /\ messages' = Append(messages, m)]_vars

SubmittableWhileInFlight ==
    /\ pipelines # <<>>
    /\ Trim(input) # <<>>

\* C8: handleSubmit never calls getGeminiResponse with an empty or
\* whitespace-only question and never appends a user message with empty
\* content.
NonEmptyAtCallSite ==
    /\ \A i \in DOMAIN messages :
          messages[i].type = "user" => Trim(messages[i].content) # <<>>
    /\ \A id \in DOMAIN pipelines : Trim(pipelines[id].question) # <<>>

\* C9: every accepted submission is eventually followed by the loading flag
\* being reset, the step that resets it appends exactly one bot message, and
\* no bot message is appended before it.
EverySubmissionResolves ==
    /\ isLoading ~> ~isLoading
    /\ [][isLoading
          => IF isLoading'
             THEN messages' \in {messages, <<>>}
             ELSE \E m \in {messages'[Len(messages')]} :
                     m.type = "bot" /\ messages' = Append(messages, m)]_vars

SubmissionResolved ==
    /\ ~isLoading
    /\ pipelines = <<>>
    /\ Len(searchHistory) = 1
    /\ Len(messages) = 2
    /\ messages[1].type = "user"
    /\ messages[2].type = "bot"

\* C10: every bot message in the list is immediately preceded by a user
\* message; the list never starts with a bot message.
ConversationPairing ==
    \A i \in DOMAIN messages :
        messages[i].type = "bot" => i > 1 /\ messages[i - 1].type = "user"
====
